---- MODULE Spec2Model ----
(***************************************************************************)
(* TaskTrackPro web scraper: scrape_website / extract_field                *)
(* (src/scraper/scraper.py), extract_colors / identify_fonts               *)
(* (src/scraper/design_elements.py) and the validators and catalog of      *)
(* src/scraper/utils.py.                                                   *)
(*                                                                         *)
(* A Python str is a sequence of one-character strings, so that strip,     *)
(* lower, replace, split and the regular expressions are computed and not  *)
(* assumed.  A Python value carries its type: [t |-> "str", v |-> chars],  *)
(* [t |-> "list", v |-> items], [t |-> "dict", v |-> <<key, value>> pairs  *)
(* in insertion order], [t |-> "none", v |-> <<>>].                        *)
(***************************************************************************)
EXTENDS Integers, Sequences, FiniteSets, TLC

VARIABLES
  pc,               \* where the call stands: "Idle", "Fetching", "Parsing",
                    \* "Extracting", "Done", "Failed" for scrape_website;
                    \* "Call", "Returned" for a single extractor
  stage,            \* the statement reached inside the Extracting state
  url,              \* the url argument
  profile,          \* profile["fields"], a sequence of field names
  toggles,          \* the parameters extract_colors, extract_logo, extract_fonts
  page,             \* what the parsed document answers to the queries of the code
  fetchOutcome,     \* what requests.get / raise_for_status did
  extracted_data,   \* the dict of scraper.py:43-46, None while unassigned
  design_elements,  \* the dict of scraper.py:49-58, None while unassigned
  fieldIdx,         \* how many fields the loop of scraper.py:44 has done
  result,           \* how the call ended: [kind, msg]
  failedIn,         \* the state in which the exception was raised
  getCount,         \* number of HTTP GETs issued
  out               \* what a single extractor returned

vars == <<pc, stage, url, profile, toggles, page, fetchOutcome, extracted_data,
          design_elements, fieldIdx, result, failedIn, getCount, out>>

-----------------------------------------------------------------------------
(* Characters and strings                                                  *)

LowerLetters == {"a","b","c","d","e","f","g","h","i","j","k","l","m",
                 "n","o","p","q","r","s","t","u","v","w","x","y","z"}
UpperLetters == {"A","B","C","D","E","F","G","H","I","J","K","L","M",
                 "N","O","P","Q","R","S","T","U","V","W","X","Y","Z"}
Digits == {"0","1","2","3","4","5","6","7","8","9"}

\* the characters of the model in code point order (Python compares str by
\* code point), and the code point of each
AsciiOrder == <<"\n", " ", "\"", "#", "&", "'", "(", ")", "+", ",", "-", ".", "/",
                "0","1","2","3","4","5","6","7","8","9", ":", ";", "<", "=", ">",
                "?", "@",
                "A","B","C","D","E","F","G","H","I","J","K","L","M",
                "N","O","P","Q","R","S","T","U","V","W","X","Y","Z", "_",
                "a","b","c","d","e","f","g","h","i","j","k","l","m",
                "n","o","p","q","r","s","t","u","v","w","x","y","z", "|">>

CodePoints == <<10, 32, 34, 35, 38, 39, 40, 41, 43, 44, 45, 46, 47,
                48, 49, 50, 51, 52, 53, 54, 55, 56, 57, 58, 59, 60, 61, 62,
                63, 64,
                65, 66, 67, 68, 69, 70, 71, 72, 73, 74, 75, 76, 77,
                78, 79, 80, 81, 82, 83, 84, 85, 86, 87, 88, 89, 90, 95,
                97, 98, 99, 100, 101, 102, 103, 104, 105, 106, 107, 108, 109,
                110, 111, 112, 113, 114, 115, 116, 117, 118, 119, 120, 121, 122,
                124>>

\* ord(c) and chr(n)
Ord(c) == CodePoints[CHOOSE i \in 1..Len(AsciiOrder) : AsciiOrder[i] = c]
Chr(n) == AsciiOrder[CHOOSE i \in 1..Len(CodePoints) : CodePoints[i] = n]

\* str.lower() on one character
LowerChar(c) == IF c \in UpperLetters THEN Chr(Ord(c) + 32) ELSE c

\* str.lower()
Lower(s) == [i \in 1..Len(s) |-> LowerChar(s[i])]

\* s[i:] with a 1-based i
Drop(s, i) == SubSeq(s, i, Len(s))

\* s.startswith(p)
StartsWith(s, p) == Len(s) >= Len(p) /\ SubSeq(s, 1, Len(p)) = p

\* index of the first occurrence of p in s at or after i, 0 when there is none
RECURSIVE FindFrom(_, _, _)
FindFrom(s, p, i) ==
  IF i + Len(p) - 1 > Len(s) THEN 0
  ELSE IF SubSeq(s, i, i + Len(p) - 1) = p THEN i
  ELSE FindFrom(s, p, i + 1)

\* p in s
Contains(s, p) == FindFrom(s, p, 1) # 0

\* s.replace(p, "") for a non-empty p: every occurrence, left to right
RECURSIVE ReplaceAll(_, _)
ReplaceAll(s, p) ==
  LET k == FindFrom(s, p, 1)
  IN IF k = 0 THEN s
     ELSE SubSeq(s, 1, k - 1) \o ReplaceAll(Drop(s, k + Len(p)), p)

\* s.split(c): always at least one piece
RECURSIVE Split(_, _)
Split(s, c) ==
  LET k == FindFrom(s, <<c>>, 1)
  IN IF k = 0 THEN <<s>>
     ELSE <<SubSeq(s, 1, k - 1)>> \o Split(Drop(s, k + 1), c)

Whitespace == {" ", "\n"}

\* s.lstrip(), s.rstrip(), s.strip()
RECURSIVE LStrip(_)
LStrip(s) == IF s # <<>> /\ s[1] \in Whitespace THEN LStrip(Tail(s)) ELSE s
RECURSIVE RStrip(_)
RStrip(s) ==
  IF s # <<>> /\ s[Len(s)] \in Whitespace THEN RStrip(SubSeq(s, 1, Len(s) - 1))
  ELSE s
Strip(s) == LStrip(RStrip(s))

\* sep.join(parts)
RECURSIVE Join(_, _)
Join(sep, parts) ==
  IF parts = <<>> THEN <<>>
  ELSE IF Len(parts) = 1 THEN parts[1]
  ELSE parts[1] \o sep \o Join(sep, Tail(parts))

\* the lists of ss put end to end (list.extend in a loop)
RECURSIVE Concat(_)
Concat(ss) == IF ss = <<>> THEN <<>> ELSE ss[1] \o Concat(Tail(ss))

\* index of the first element of s that satisfies P, 0 when none does
FirstIdx(s, P(_)) ==
  IF \E i \in 1..Len(s) : P(s[i])
  THEN CHOOSE i \in 1..Len(s) : P(s[i]) /\ \A j \in 1..(i - 1) : ~P(s[j])
  ELSE 0

\* [f(x) for x in s]
Map(s, f(_)) == [i \in 1..Len(s) |-> f(s[i])]

\* the characters of s that come before its first c (all of s when c is absent)
UpTo(s, c) == Split(s, c)[1]

\* the elements of a sequence
Range(s) == {s[i] : i \in 1..Len(s)}

\* Python comparison of two str: code point by code point, a prefix first
RECURSIVE StrLess(_, _)
StrLess(a, b) ==
  IF b = <<>> THEN FALSE
  ELSE IF a = <<>> THEN TRUE
  ELSE IF a[1] = b[1] THEN StrLess(Tail(a), Tail(b))
  ELSE Ord(a[1]) < Ord(b[1])

-----------------------------------------------------------------------------
(* Python values                                                           *)

Str(s) == [t |-> "str", v |-> s]
List(l) == [t |-> "list", v |-> l]
Dict(d) == [t |-> "dict", v |-> d]
None == [t |-> "none", v |-> <<>>]

\* DictSet with a new key put first instead of last
DictSet_NewKeyFirst(d, k, x) ==
  IF \E i \in 1..Len(d) : d[i][1] = k
  THEN [i \in 1..Len(d) |-> IF d[i][1] = k THEN <<k, x>> ELSE d[i]]
  ELSE <<<<k, x>>>> \o d

\* d[k] = x on a dict kept as <<key, value>> pairs: an existing key keeps its
\* place, a new key goes last
DictSet(d, k, x) ==
  IF \E i \in 1..Len(d) : d[i][1] = k
  THEN [i \in 1..Len(d) |-> IF d[i][1] = k THEN <<k, x>> ELSE d[i]]
  ELSE Append(d, <<k, x>>)

\* list(d.keys())
Keys(d) == [i \in 1..Len(d) |-> d[i][1]]

HasKey(d, k) == \E i \in 1..Len(d) : d[i][1] = k

-----------------------------------------------------------------------------
(* src/scraper/utils.py: validators                                        *)

\* \w of the re module, on the characters of the model
WordChars == LowerLetters \cup UpperLetters \cup Digits \cup {"_"}

\* [\w\.-]
EmailChars == WordChars \cup {".", "-"}

AllIn(s, class) == \A i \in 1..Len(s) : s[i] \in class

\* ^[\w\.-]+@[\w\.-]+\.\w+ up to the end of s
EmailShape(s) ==
  \E k \in 2..Len(s) :
    /\ s[k] = "@"
    /\ AllIn(SubSeq(s, 1, k - 1), EmailChars)
    /\ \E j \in (k + 2)..(Len(s) - 1) :
         /\ s[j] = "."
         /\ AllIn(SubSeq(s, k + 1, j - 1), EmailChars)
         /\ AllIn(SubSeq(s, j + 1, Len(s)), WordChars)

\* is_valid_email: "$" also matches before one final newline
is_valid_email(email) ==
  IF email = <<>> THEN FALSE
  ELSE \/ EmailShape(email)
       \/ /\ email[Len(email)] = "\n"
          /\ EmailShape(SubSeq(email, 1, Len(email) - 1))

\* the characters re.sub(r'[\s\-\(\)\.]+', '', phone) removes
PhoneSeparators == Whitespace \cup {"-", "(", ")", "."}

MinPhoneDigits == 7
MaxPhoneDigits == 15

\* is_valid_phone
is_valid_phone(phone) ==
  IF phone = <<>> THEN FALSE
  ELSE LET clean == SelectSeq(phone, LAMBDA c : c \notin PhoneSeparators)
           digits == IF clean # <<>> /\ clean[1] = "+" THEN Tail(clean) ELSE clean
       IN /\ AllIn(digits, Digits)
          /\ Len(digits) >= MinPhoneDigits
          /\ Len(digits) <= MaxPhoneDigits

-----------------------------------------------------------------------------
(* src/scraper/utils.py: the catalog.  Field names are written in Latin    *)
(* letters; the source line of each name is given.                         *)

F_name           == "business_name"      \* scraper.py:82
F_phone          == "phone"              \* scraper.py:102
F_email          == "email"              \* scraper.py:132, first spelling
F_email2         == "email_geresh"       \* scraper.py:132, second spelling
F_email3         == "email_gershayim"    \* scraper.py:132, third spelling
F_address        == "address"            \* scraper.py:152
F_hours          == "hours_activity"     \* scraper.py:184, first name
F_hoursOpen      == "hours_opening"      \* scraper.py:184, second name
F_hoursReception == "hours_reception"    \* scraper.py:184, third name
F_team           == "team"               \* scraper.py:218, first name
F_doctors        == "doctors"            \* scraper.py:218, second name
F_social         == "social_links"       \* scraper.py:272
F_catFields      == "fields_of_practice" \* scraper.py:302, first name
F_catActivity    == "field_of_activity"  \* scraper.py:302, second name
F_catSpecialty   == "specialty"          \* scraper.py:302, third name
F_logo           == "logo"               \* utils.py:59, no branch in extract_field
F_colors         == "dominant_colors"    \* utils.py:70, no branch in extract_field
F_unknown        == "not_in_catalog"     \* a name of no table

\* the field names extract_field has a branch for
Vocabulary ==
  {F_name, F_phone, F_email, F_email2, F_email3, F_address, F_hours,
   F_hoursOpen, F_hoursReception, F_team, F_doctors, F_social, F_catFields,
   F_catActivity, F_catSpecialty}

\* load_fields, the default table: field name -> declared type
load_fields ==
  (F_name :> "string") @@ (F_phone :> "string") @@ (F_email :> "email") @@
  (F_logo :> "url") @@ (F_team :> "array") @@ (F_address :> "string") @@
  (F_hours :> "string") @@ (F_hoursReception :> "string") @@
  (F_hoursOpen :> "string") @@ (F_catFields :> "array") @@
  (F_catSpecialty :> "string") @@ (F_catActivity :> "string") @@
  (F_social :> "object") @@ (F_doctors :> "array") @@ (F_colors :> "array")

\* load_profiles, the default table: profile key -> profile["fields"]
load_profiles ==
  [law_firm |-> <<F_name, F_address, F_phone, F_email, F_logo, F_colors,
                  F_catFields, F_team, F_social, F_hours>>,
   doctor   |-> <<F_name, F_catSpecialty, F_address, F_phone, F_email,
                  F_doctors, F_hoursReception, F_social>>,
   business |-> <<F_name, F_catActivity, F_address, F_phone, F_email, F_logo,
                  F_hoursOpen, F_social>>,
   custom   |-> <<>>]

-----------------------------------------------------------------------------
(* src/scraper/scraper.py: extract_field.  `soup` is the record of what the *)
(* parsed document answers to the queries of the code:                     *)
(*   title      soup.title.text, "" without a title tag                    *)
(*   h1         the text of every h1, in document order                    *)
(*   brandAlt   alt of the first img of class logo|brand, "" when missing  *)
(*   phones     re.findall of each of the four phone patterns on the text  *)
(*   links      the href of every a[href], in document order               *)
(*   text       soup.get_text()                                            *)
(*   metaAddress, metaKeywords, metaDesc   content of the meta tag, or ""  *)
(*   itemAddress  text of span[itemprop=address]: a list of at most one    *)
(*   cityElems  p/div/span/address elements: [text, hasCity]               *)
(*   addrElems  text of the elements of class, then of id, address|location*)
(*   hoursElems elements of class, then of id, hours|time|schedule:        *)
(*              [text, hasDay]                                             *)
(*   tables     every table: its rows, a row = [cells, firstHasDay]        *)
(*   teamSections  the team sections: [cards, lis], a person =             *)
(*              [name, roleTagged, roleOther, mailto]                      *)
(*   serviceHeaders  the h2/h3 matching the services words: [next, texts]  *)

MAILTO == <<"m","a","i","l","t","o",":">>
TEL    == <<"t","e","l",":">>
HTTP   == <<"h","t","t","p",":","/","/">>
HTTPS  == <<"h","t","t","p","s",":","/","/">>

\* scraper.py:82-99
ExtractName(soup) ==
  LET good(h) == Len(Strip(h)) > 3 /\ Len(Strip(h)) < 50
      k == FirstIdx(soup.h1, good)
  IN IF k # 0 THEN Str(Strip(soup.h1[k]))
     ELSE IF soup.brandAlt # <<>> THEN Str(soup.brandAlt)
     ELSE Str(Strip(soup.title))

\* scraper.py:102-129
ExtractPhone(soup) ==
  LET valid(ms) == SelectSeq(ms, is_valid_phone)
      hit(ms) == valid(ms) # <<>>
      k == FirstIdx(soup.phones, hit)
      tels == Map(SelectSeq(soup.links, LAMBDA h : StartsWith(h, TEL)),
                  LAMBDA h : ReplaceAll(h, TEL))
      t == FirstIdx(tels, is_valid_phone)
  IN IF k # 0 THEN Str(valid(soup.phones[k])[1])
     ELSE IF t # 0 THEN Str(tels[t])
     ELSE Str(<<>>)

\* end (exclusive) of the longest run of characters of `class` starting at i
RECURSIVE RunEnd(_, _, _)
RunEnd(s, i, class) ==
  IF i <= Len(s) /\ s[i] \in class THEN RunEnd(s, i + 1, class) ELSE i

\* end (exclusive) of the match of [\w\.-]+@[\w\.-]+\.[a-z]{2,} that starts at
\* i, 0 when there is none: both + are greedy, so the second one gives back
\* as little as it must
EmailMatchEnd(s, i) ==
  LET a == RunEnd(s, i, EmailChars)
      bEnd == RunEnd(s, a + 1, EmailChars)
      dots == {b \in (a + 2)..(bEnd - 1) :
                 /\ s[b] = "."
                 /\ b + 2 <= Len(s)
                 /\ s[b + 1] \in LowerLetters
                 /\ s[b + 2] \in LowerLetters}
  IN IF a > i /\ a <= Len(s) /\ s[a] = "@" /\ dots # {}
     THEN RunEnd(s, (CHOOSE b \in dots : \A c \in dots : c <= b) + 1, LowerLetters)
     ELSE 0

\* re.findall(r'[\w\.-]+@[\w\.-]+\.[a-z]{2,}', text)
RECURSIVE FindEmails(_, _)
FindEmails(s, i) ==
  IF i > Len(s) THEN <<>>
  ELSE LET e == EmailMatchEnd(s, i)
       IN IF e = 0 THEN FindEmails(s, i + 1)
          ELSE <<SubSeq(s, i, e - 1)>> \o FindEmails(s, e)

\* scraper.py:137: link['href'].replace('mailto:', '').split('?')[0]
MailtoAddress(href) == UpTo(ReplaceAll(href, MAILTO), "?")

\* scraper.py:132-149
ExtractEmail(soup) ==
  LET mailto_links == SelectSeq(soup.links, LAMBDA h : StartsWith(h, MAILTO))
      emails == Map(mailto_links, MailtoAddress)
      k == FirstIdx(emails, is_valid_email)
      valid_emails == SelectSeq(FindEmails(soup.text, 1), is_valid_email)
  IN IF k # 0 THEN Str(emails[k])
     ELSE IF valid_emails # <<>> THEN Str(valid_emails[1])
     ELSE Str(<<>>)

\* scraper.py:152-181
ExtractAddress(soup) ==
  LET city(e) == e.hasCity /\ Len(Strip(e.text)) < 100 /\ Len(Strip(e.text)) > 10
      c == FirstIdx(soup.cityElems, city)
      named(t) == Len(Strip(t)) > 5 /\ Len(Strip(t)) < 150
      n == FirstIdx(soup.addrElems, named)
  IN IF soup.metaAddress # <<>> THEN Str(soup.metaAddress)
     ELSE IF soup.itemAddress # <<>> THEN Str(Strip(soup.itemAddress[1]))
     ELSE IF c # 0 THEN Str(Strip(soup.cityElems[c].text))
     ELSE IF n # 0 THEN Str(Strip(soup.addrElems[n]))
     ELSE Str(<<>>)

\* re.search(r'\d{1,2}[:.]\d{2}', text)
HasTime(s) ==
  \E i \in 1..(Len(s) - 3) :
    /\ s[i] \in Digits
    /\ s[i + 1] \in {":", "."}
    /\ s[i + 2] \in Digits
    /\ s[i + 3] \in Digits

\* scraper.py:198: the stripped non-blank lines of a text
NonBlankLines(text) ==
  SelectSeq(Map(Split(text, "\n"), Strip), LAMBDA l : l # <<>>)

\* scraper.py:210: " ".join of the stripped cells of a row
RowText(row) == Join(<<" ">>, Map(row.cells, Strip))

\* scraper.py:184-215
ExtractHours(soup) ==
  LET hit(e) == e.hasDay /\ HasTime(Strip(e.text))
      k == FirstIdx(soup.hoursElems, hit)
      dayRow(r) == r.cells # <<>> /\ r.firstHasDay
      isHours(tb) == Len(tb) >= 3 /\ Len(tb) <= 8 /\ FirstIdx(tb, dayRow) # 0
      t == FirstIdx(soup.tables, isHours)
  IN IF k # 0
     THEN Str(Join(<<"\n">>, NonBlankLines(Strip(soup.hoursElems[k].text))))
     ELSE IF t # 0
     THEN Str(Join(<<"\n">>,
                   SelectSeq(Map(soup.tables[t], RowText), LAMBDA x : x # <<>>)))
     ELSE Str(<<>>)
\* scraper.py:232-263: one person element; <<>> when it has no name
PersonInfo(person) ==
  LET name == Strip(person.name)
      role == IF person.roleTagged # <<>> THEN Strip(person.roleTagged[1])
              ELSE IF person.roleOther # <<>> THEN Strip(person.roleOther[1])
              ELSE <<>>
      email == IF person.mailto # <<>> THEN ReplaceAll(person.mailto[1], MAILTO)
               ELSE <<>>
  IN IF name = <<>> THEN <<>>
     ELSE <<(<< <<"name", name>> >>
             \o (IF role # <<>> THEN << <<"role", role>> >> ELSE <<>>)
             \o (IF email # <<>> THEN << <<"email", email>> >> ELSE <<>>))>>

\* scraper.py:226-263: the entries one section adds to `team`
RECURSIVE PersonInfos(_)
PersonInfos(persons) ==
  IF persons = <<>> THEN <<>>
  ELSE PersonInfo(persons[1]) \o PersonInfos(Tail(persons))

SectionTeam(section) ==
  PersonInfos(IF section.cards # <<>> THEN section.cards ELSE section.lis)

\* the entries of every section returned together
ExtractTeam_AllSections(soup) ==
  List(Concat(Map(soup.teamSections, SectionTeam)))

\* scraper.py:218-269
ExtractTeam(soup) ==
  LET named(sec) == SectionTeam(sec) # <<>>
      k == FirstIdx(soup.teamSections, named)
  IN IF k # 0 THEN List(SectionTeam(soup.teamSections[k])) ELSE List(<<>>)

\* scraper.py:274-282: platform -> the literal alternatives of its pattern
social_patterns ==
  << <<"facebook",  {<<"f","a","c","e","b","o","o","k",".","c","o","m">>}>>,
     <<"twitter",   {<<"t","w","i","t","t","e","r",".","c","o","m">>,
                     <<"x",".","c","o","m">>}>>,
     <<"instagram", {<<"i","n","s","t","a","g","r","a","m",".","c","o","m">>}>>,
     <<"linkedin",  {<<"l","i","n","k","e","d","i","n",".","c","o","m">>}>>,
     <<"youtube",   {<<"y","o","u","t","u","b","e",".","c","o","m">>}>>,
     <<"tiktok",    {<<"t","i","k","t","o","k",".","c","o","m">>}>>,
     <<"whatsapp",  {<<"w","a",".","m","e">>,
                     <<"w","h","a","t","s","a","p","p",".","c","o","m">>}>> >>

\* re.search(pattern, href)
PlatformMatches(pat, href) == \E alt \in pat[2] : Contains(href, alt)

\* urllib.parse.urljoin(base, href) for a base "scheme://host/path" and an
\* href that is empty, absolute ("scheme:..."), scheme-relative ("//host/p"),
\* root-relative ("/p") or a plain relative path without dot segments
SchemeChars == LowerLetters \cup UpperLetters \cup Digits \cup {"+", "-", "."}
HasScheme(u) ==
  LET k == FindFrom(u, <<":">>, 1)
  IN k > 1 /\ u[1] \in (LowerLetters \cup UpperLetters)
           /\ AllIn(SubSeq(u, 1, k - 1), SchemeChars)
UrlScheme(u) == SubSeq(u, 1, FindFrom(u, <<":">>, 1) - 1)
\* index of the "/" that starts the path of an absolute URL, 0 without a path
PathStart(u) == FindFrom(u, <<"/">>, Len(UrlScheme(u)) + 4)
RECURSIVE LastSlash(_, _)
LastSlash(u, i) == IF i = 0 \/ u[i] = "/" THEN i ELSE LastSlash(u, i - 1)
urljoin(base, href) ==
  IF href = <<>> THEN base
  ELSE IF HasScheme(href) THEN href
  ELSE IF StartsWith(href, <<"/","/">>) THEN UrlScheme(base) \o <<":">> \o href
  ELSE IF href[1] = "/"
  THEN (IF PathStart(base) = 0 THEN base
        ELSE SubSeq(base, 1, PathStart(base) - 1)) \o href
  ELSE IF PathStart(base) = 0 THEN base \o <<"/">> \o href
  ELSE SubSeq(base, 1, LastSlash(base, Len(base))) \o href

\* scraper.py:286-297: the loop body for one link
SocialStep(social_links, href, base_url) ==
  LET k == FirstIdx(social_patterns, LAMBDA pat : PlatformMatches(pat, href))
      resolved == IF StartsWith(href, HTTP) \/ StartsWith(href, HTTPS) THEN href
                  ELSE urljoin(base_url, href)
  IN IF k = 0 THEN social_links
     ELSE DictSet(social_links, social_patterns[k][1], resolved)

RECURSIVE SocialLoop(_, _, _)
SocialLoop(social_links, links, base_url) ==
  IF links = <<>> THEN social_links
  ELSE SocialLoop(SocialStep(social_links, links[1], base_url), Tail(links),
                  base_url)

\* scraper.py:272-299
ExtractSocial(soup, base_url) == Dict(SocialLoop(<<>>, soup.links, base_url))

\* scraper.py:313-330: what one services header yields, <<>> when nothing
HeaderServices(h) ==
  IF h.next = "ul" THEN Map(h.texts, Strip)
  ELSE IF h.next \in {"div", "section"}
  THEN SelectSeq(Map(h.texts, Strip), LAMBDA t : 5 < Len(t) /\ Len(t) < 100)
  ELSE <<>>

\* scraper.py:302-337
ExtractCategory(soup) ==
  LET keywords == Map(Split(soup.metaKeywords, ","), Strip)
      found(h) == HeaderServices(h) # <<>>
      k == FirstIdx(soup.serviceHeaders, found)
  IN IF soup.metaKeywords # <<>> THEN List(keywords)
     ELSE IF k # 0 THEN List(HeaderServices(soup.serviceHeaders[k]))
     ELSE IF soup.metaDesc # <<>> THEN Str(soup.metaDesc)
     ELSE Str(<<>>)

\* the default fallback returning None instead of the empty string
DefaultFallback_None == None

\* scraper.py:339-340: default fallback, the empty result
DefaultFallback == Str(<<>>)

\* scraper.py:69-340
extract_field(soup, field_name, base_url) ==
  IF field_name = F_name THEN ExtractName(soup)
  ELSE IF field_name = F_phone THEN ExtractPhone(soup)
  ELSE IF field_name \in {F_email, F_email2, F_email3} THEN ExtractEmail(soup)
  ELSE IF field_name = F_address THEN ExtractAddress(soup)
  ELSE IF field_name \in {F_hours, F_hoursOpen, F_hoursReception}
  THEN ExtractHours(soup)
  ELSE IF field_name \in {F_team, F_doctors} THEN ExtractTeam(soup)
  ELSE IF field_name = F_social THEN ExtractSocial(soup, base_url)
  ELSE IF field_name \in {F_catFields, F_catActivity, F_catSpecialty}
  THEN ExtractCategory(soup)
  ELSE DefaultFallback
-----------------------------------------------------------------------------
(* src/scraper/design_elements.py: extract_colors.  The document answers:  *)
(*   styleDecls   the declarations of the rules of the style tags, in      *)
(*                order: [name, value]                                     *)
(*   cssRaises    whether the parsing of the style tags raises             *)
(*   inlineStyles the style attribute of every element that has one        *)
(*   customProps  for each of the five names of design_elements.py:85, in  *)
(*                that order, the values re.findall captures in the markup *)

HexLower == <<"0","1","2","3","4","5","6","7","8","9","a","b","c","d","e","f">>
HexChars == Digits \cup {"a","b","c","d","e","f","A","B","C","D","E","F"}

\* re.findall(r'#(?:[0-9a-fA-F]{3}){1,2}', s) from index i on
RECURSIVE FindHex(_, _)
FindHex(s, i) ==
  IF i > Len(s) THEN <<>>
  ELSE LET n == RunEnd(s, i + 1, HexChars) - (i + 1)
           len == IF n >= 6 THEN 6 ELSE IF n >= 3 THEN 3 ELSE 0
       IN IF s[i] = "#" /\ len > 0
          THEN <<SubSeq(s, i, i + len)>> \o FindHex(s, i + len + 1)
          ELSE FindHex(s, i + 1)

\* int(digits)
RECURSIVE ToInt(_)
ToInt(ds) ==
  IF ds = <<>> THEN 0
  ELSE 10 * ToInt(SubSeq(ds, 1, Len(ds) - 1)) + (Ord(ds[Len(ds)]) - Ord("0"))

\* '{:x}'.format(n)
RECURSIVE HexOf(_)
HexOf(n) ==
  IF n < 16 THEN <<HexLower[n + 1]>>
  ELSE HexOf(n \div 16) \o <<HexLower[(n % 16) + 1]>>

\* '{:02x}'.format(n): two is the least width, not the greatest
Hex02(n) == IF n < 16 THEN <<"0">> \o HexOf(n) ELSE HexOf(n)

\* design_elements.py:50 and :63
RgbToHex(r, g, b) == <<"#">> \o Hex02(r) \o Hex02(g) \o Hex02(b)

RGBOPEN == <<"r","g","b","(">>

\* one "\s*(\d+)\s*" of the rgb pattern from index i: [ok, val, end]
RgbNumber(s, i) ==
  LET a == RunEnd(s, i, Whitespace)
      b == RunEnd(s, a, Digits)
  IN [ok |-> b > a, val |-> ToInt(SubSeq(s, a, b - 1)),
      end |-> RunEnd(s, b, Whitespace)]

\* the match of rgb\(\s*(\d+)\s*,\s*(\d+)\s*,\s*(\d+)\s*\) that starts at i:
\* [ok, hex, end]
RgbMatchAt(s, i) ==
  LET n1 == RgbNumber(s, i + Len(RGBOPEN))
      c1 == n1.ok /\ n1.end <= Len(s) /\ s[n1.end] = ","
      n2 == RgbNumber(s, n1.end + 1)
      c2 == c1 /\ n2.ok /\ n2.end <= Len(s) /\ s[n2.end] = ","
      n3 == RgbNumber(s, n2.end + 1)
      c3 == c2 /\ n3.ok /\ n3.end <= Len(s) /\ s[n3.end] = ")"
  IN IF /\ i + Len(RGBOPEN) - 1 <= Len(s)
        /\ SubSeq(s, i, i + Len(RGBOPEN) - 1) = RGBOPEN
        /\ c3
     THEN [ok |-> TRUE, hex |-> RgbToHex(n1.val, n2.val, n3.val), end |-> n3.end + 1]
     ELSE [ok |-> FALSE, hex |-> <<>>, end |-> i + 1]

\* design_elements.py:48-51 and :61-64: the hex form of every rgb() of s
RECURSIVE FindRgb(_, _)
FindRgb(s, i) ==
  IF i > Len(s) THEN <<>>
  ELSE LET m == RgbMatchAt(s, i)
       IN (IF m.ok THEN <<m.hex>> ELSE <<>>) \o FindRgb(s, m.end)

\* design_elements.py:45-51 and :58-64: what one value adds to `colors`
ValueColors(value) == FindHex(value, 1) \o FindRgb(value, 1)

COLOR      == <<"c","o","l","o","r">>
BACKGROUND == <<"b","a","c","k","g","r","o","u","n","d">>

\* design_elements.py:30-74: `colors` after the try block
CollectColors(soup) ==
  LET decls == SelectSeq(soup.styleDecls,
                 LAMBDA d : Contains(d.name, COLOR) \/ Contains(d.name, BACKGROUND))
  IN IF soup.cssRaises THEN <<>>
     ELSE Concat(Map(decls, LAMBDA d : ValueColors(d.value)))
          \o Concat(Map(soup.inlineStyles, ValueColors))

\* design_elements.py:81
FilteredOut ==
  {<<"#","0","0","0">>, <<"#","0","0","0","0","0","0">>,
   <<"#","f","f","f">>, <<"#","f","f","f","f","f","f">>,
   <<"t","r","a","n","s","p","a","r","e","n","t">>}

\* design_elements.py:81, on unique_colors in the order list(set(...)) gave
FilterColors(unique_colors) ==
  SelectSeq(unique_colors, LAMBDA c : c \notin FilteredOut)

\* design_elements.py:88-91: what the captured values of one name add
PropColors(props) ==
  Concat(Map(props, LAMBDA prop :
    LET m == FindHex(prop, 1) IN IF m = <<>> THEN <<>> ELSE <<Lower(m[1])>>))

\* the custom properties added whatever the number of colors found
Fallback_Always(filtered_colors, soup) ==
  filtered_colors \o Concat(Map(soup.customProps, PropColors))

\* design_elements.py:84-91
Fallback(filtered_colors, soup) ==
  IF Len(filtered_colors) < 2
  THEN filtered_colors \o Concat(Map(soup.customProps, PropColors))
  ELSE filtered_colors
\* int(h, 16) of a string of hex digits
RECURSIVE HexVal(_)
HexVal(h) ==
  IF h = <<>> THEN 0
  ELSE 16 * HexVal(SubSeq(h, 1, Len(h) - 1))
       + (CHOOSE k \in 0..15 : HexLower[k + 1] = LowerChar(h[Len(h)]))

\* color[a:b] of Python (0-based, b exclusive, cut at the end of the string)
Slice(s, a, b) == SubSeq(s, a + 1, IF b < Len(s) THEN b ELSE Len(s))

\* design_elements.py:114-121: the three channels, times 255
Channels(color) ==
  IF Len(color) = 4
  THEN [r |-> HexVal(<<color[2], color[2]>>),
        g |-> HexVal(<<color[3], color[3]>>),
        b |-> HexVal(<<color[4], color[4]>>)]
  ELSE [r |-> HexVal(Slice(color, 1, 3)),
        g |-> HexVal(Slice(color, 3, 5)),
        b |-> HexVal(Slice(color, 5, 7))]

Max3(a, b, c) == IF a >= b /\ a >= c THEN a ELSE IF b >= c THEN b ELSE c
Min3(a, b, c) == IF a <= b /\ a <= c THEN a ELSE IF b <= c THEN b ELSE c

\* colorsys.rgb_to_hsv as exact fractions: hue = hn / (6 * hd),
\* saturation = sn / sd
Hsv(color) ==
  LET ch == Channels(color)
      maxc == Max3(ch.r, ch.g, ch.b)
      minc == Min3(ch.r, ch.g, ch.b)
      d == maxc - minc
      h6 == IF ch.r = maxc THEN ch.g - ch.b
            ELSE IF ch.g = maxc THEN 2 * d + ch.b - ch.r
            ELSE 4 * d + ch.r - ch.g
  IN IF d = 0 THEN [hn |-> 0, hd |-> 1, sn |-> 0, sd |-> 1]
     ELSE [hn |-> (h6 + 6 * d) % (6 * d), hd |-> d, sn |-> d, sd |-> maxc]

HueLess(c1, c2) == Hsv(c1).hn * Hsv(c2).hd < Hsv(c2).hn * Hsv(c1).hd
SatGreater(c1, c2) == Hsv(c1).sn * Hsv(c2).sd > Hsv(c2).sn * Hsv(c1).sd

\* the two sort keys of sort_colors_by_distinctiveness: x[1] ascending
\* (design_elements.py:127) and x[2] descending (design_elements.py:137)
Before(key, x, y) == IF key = "hue" THEN HueLess(x, y) ELSE SatGreater(x, y)

\* list.sort / sorted are stable: x goes behind every element it is not
\* strictly before
RECURSIVE InsertStable(_, _, _)
InsertStable(sorted, x, key) ==
  IF sorted = <<>> THEN <<x>>
  ELSE IF Before(key, x, sorted[1]) THEN <<x>> \o sorted
  ELSE <<sorted[1]>> \o InsertStable(Tail(sorted), x, key)

RECURSIVE SortStable(_, _)
SortStable(s, key) ==
  IF s = <<>> THEN <<>>
  ELSE InsertStable(SortStable(SubSeq(s, 1, Len(s) - 1), key), s[Len(s)], key)

\* design_elements.py:100-141
sort_colors_by_distinctiveness(colors) ==
  LET hsv_colors == SortStable(colors, "hue")
  IN IF hsv_colors = <<>> THEN <<>>
     ELSE <<hsv_colors[1]>> \o SortStable(Tail(hsv_colors), "sat")

\* design_elements.py:15, the default of max_colors
max_colors == 5

\* the list returned whole
Take_All(s, n) == s

\* colors[:n]
Take(s, n) == SubSeq(s, 1, IF n < Len(s) THEN n ELSE Len(s))

\* the orders list(set(colors)) can give: every arrangement of the distinct
\* elements (the iteration order of a set of str is not fixed)
RECURSIVE Arrangements(_)
Arrangements(S) ==
  IF S = {} THEN {<<>>}
  ELSE UNION {{<<x>> \o q : q \in Arrangements(S \ {x})} : x \in S}

\* design_elements.py:76-98, on `colors` as collected and one order of the set
extract_colors_from(colors, unique_colors, soup) ==
  LET filtered_colors == Fallback(FilterColors(unique_colors), soup)
  IN IF Len(filtered_colors) > 1
     THEN Take(sort_colors_by_distinctiveness(filtered_colors), max_colors)
     ELSE Take(filtered_colors, max_colors)

\* design_elements.py:77: colors = [c.lower() for c in colors]
NormalizedColors(soup) == Map(CollectColors(soup), Lower)

\* design_elements.py:15-98: the lists extract_colors can return
extract_colors(soup) ==
  LET colors == NormalizedColors(soup)
  IN {extract_colors_from(colors, q, soup) : q \in Arrangements(Range(colors))}

-----------------------------------------------------------------------------
(* src/scraper/design_elements.py: identify_fonts.  The document answers:  *)
(*   googleFonts    href of the links matching fonts.googleapis.com        *)
(*   fontFaces      the names the @font-face pattern captures in the markup*)
(*   styleFamilies  the values the font-family pattern captures in the     *)
(*                  style tags                                             *)
(*   inlineFamilies the same in the style attributes                       *)
(*   fontVars       the values the --font-family pattern captures          *)

\* s.split(p) for a non-empty string p
RECURSIVE SplitBy(_, _)
SplitBy(s, p) ==
  LET k == FindFrom(s, p, 1)
  IN IF k = 0 THEN <<s>>
     ELSE <<SubSeq(s, 1, k - 1)>> \o SplitBy(Drop(s, k + Len(p)), p)

\* re.sub(r':[^,]+', '', s)
RECURSIVE DropWeights(_)
DropWeights(s) ==
  IF s = <<>> THEN <<>>
  ELSE IF s[1] = ":" /\ Len(s) >= 2 /\ s[2] # ","
  THEN LET k == FindFrom(s, <<",">>, 2)
       IN IF k = 0 THEN <<>> ELSE DropWeights(Drop(s, k))
  ELSE <<s[1]>> \o DropWeights(Tail(s))

\* s.replace('+', ' ')
PlusToSpace(s) == [i \in 1..Len(s) |-> IF s[i] = "+" THEN " " ELSE s[i]]

FAMILY_EQ == <<"f","a","m","i","l","y","=">>

\* design_elements.py:222-232: the names one Google Fonts link adds
GoogleFamilies(href) ==
  IF Contains(href, FAMILY_EQ)
  THEN LET family_part == UpTo(SplitBy(href, FAMILY_EQ)[2], "&")
       IN Map(Split(family_part, "|"), LAMBDA f : PlusToSpace(DropWeights(f)))
  ELSE <<>>

Quotes == {"'", "\""}

\* re.sub(r'^[\'"]|[\'"]$', '', s) on a stripped s: one quote at each end
Unquote(s) ==
  LET a == IF s # <<>> /\ s[1] \in Quotes THEN Tail(s) ELSE s
  IN IF a # <<>> /\ a[Len(a)] \in Quotes THEN SubSeq(a, 1, Len(a) - 1) ELSE a

SERIF      == <<"s","e","r","i","f">>
SANS_SERIF == <<"s","a","n","s","-","s","e","r","i","f">>
MONOSPACE  == <<"m","o","n","o","s","p","a","c","e">>
CURSIVE    == <<"c","u","r","s","i","v","e">>
FANTASY    == <<"f","a","n","t","a","s","y">>

\* design_elements.py:248, :263 and :274
GenericInLoop == {SANS_SERIF, SERIF, MONOSPACE}

\* design_elements.py:285
GenericFinal == {SANS_SERIF, SERIF, MONOSPACE, CURSIVE, FANTASY, <<>>}

\* design_elements.py:244-249 (and :259-264, :270-275): the names one
\* captured font-family value adds
FamilyNames(match) ==
  SelectSeq(Map(Split(match, ","), LAMBDA f : Unquote(Strip(f))),
            LAMBDA f : f # <<>> /\ Lower(f) \notin GenericInLoop)

\* design_elements.py:215-278: `fonts` after the try block
CollectFonts(soup) ==
  Concat(Map(soup.googleFonts, GoogleFamilies))
  \o soup.fontFaces
  \o Concat(Map(soup.styleFamilies, FamilyNames))
  \o Concat(Map(soup.inlineFamilies, FamilyNames))
  \o Concat(Map(soup.fontVars, FamilyNames))

\* NormalizeFonts with the shorter keyword list of the collecting loops
NormalizeFonts_LoopKeywords(fonts) ==
  SelectSeq(Map(fonts, Strip),
            LAMBDA f : f # <<>> /\ Lower(f) \notin GenericInLoop)

\* design_elements.py:281-286
NormalizeFonts(fonts) ==
  SelectSeq(Map(fonts, Strip),
            LAMBDA f : f # <<>> /\ Lower(f) \notin GenericFinal)

\* sorted(S) for a set of str
RECURSIVE SortedStrings(_)
SortedStrings(S) ==
  IF S = {} THEN <<>>
  ELSE LET m == CHOOSE x \in S : \A y \in S : ~StrLess(y, x)
       IN <<m>> \o SortedStrings(S \ {m})

\* design_elements.py:204-291
identify_fonts(soup) == SortedStrings(Range(NormalizeFonts(CollectFonts(soup))))
-----------------------------------------------------------------------------
(* src/scraper/design_elements.py: extract_logo.  The document answers:    *)
(*   logoElems   for each of the seven selectors of design_elements.py:155 *)
(*               the elements found, in document order: [src, childSrc,    *)
(*               svg], src and childSrc lists of at most one attribute     *)
(*               value (childSrc: the src of the first img inside)         *)
(*   headerRegions  the header and div elements whose class matches        *)
(*               /header/i, in document order: each one the list of its    *)
(*               img elements, an img being the list of at most one src    *)
(*   homeLinks   the a[href="/"] elements, in document order: each one the *)
(*               list of its img elements                                  *)

B64Alphabet ==
  <<"A","B","C","D","E","F","G","H","I","J","K","L","M",
    "N","O","P","Q","R","S","T","U","V","W","X","Y","Z",
    "a","b","c","d","e","f","g","h","i","j","k","l","m",
    "n","o","p","q","r","s","t","u","v","w","x","y","z",
    "0","1","2","3","4","5","6","7","8","9","+","/">>

\* base64.b64encode of the bytes of an ASCII string
RECURSIVE Base64(_)
Base64(s) ==
  IF s = <<>> THEN <<>>
  ELSE LET n == IF Len(s) >= 3 THEN 3 ELSE Len(s)
           b1 == Ord(s[1])
           b2 == IF n >= 2 THEN Ord(s[2]) ELSE 0
           b3 == IF n >= 3 THEN Ord(s[3]) ELSE 0
           w == b1 * 65536 + b2 * 256 + b3
       IN << B64Alphabet[(w \div 262144) + 1],
             B64Alphabet[((w \div 4096) % 64) + 1],
             IF n >= 2 THEN B64Alphabet[((w \div 64) % 64) + 1] ELSE "=",
             IF n >= 3 THEN B64Alphabet[(w % 64) + 1] ELSE "=" >>
          \o Base64(Drop(s, n + 1))

SVG_DATA_URI == <<"d","a","t","a",":","i","m","a","g","e","/","s","v","g","+",
                  "x","m","l",";","b","a","s","e","6","4",",">>

\* design_elements.py:155-163: which selectors look for a child image, and
\* which tag each one finds
logo_selectors ==
  <<[tag |-> "img", find_child |-> FALSE], [tag |-> "img", find_child |-> FALSE],
    [tag |-> "img", find_child |-> FALSE], [tag |-> "img", find_child |-> FALSE],
    [tag |-> "a", find_child |-> TRUE], [tag |-> "div", find_child |-> TRUE],
    [tag |-> "svg", find_child |-> FALSE]>>

\* design_elements.py:168-184: what one element of one selector returns,
\* <<>> when the loop goes on
LogoOfElement(selector, element, base_url) ==
  IF selector.find_child
  THEN (IF element.childSrc # <<>>
        THEN <<urljoin(base_url, element.childSrc[1])>> ELSE <<>>)
  ELSE IF selector.tag = "img" /\ element.src # <<>>
  THEN <<urljoin(base_url, element.src[1])>>
  ELSE IF selector.tag = "svg" THEN <<SVG_DATA_URI \o Base64(element.svg)>>
  ELSE <<>>

\* design_elements.py:166-184: the returns of the selector loop, in order
SelectorLogos(soup, base_url) ==
  Concat([k \in 1..Len(logo_selectors) |->
            Concat(Map(soup.logoElems[k],
                       LAMBDA e : LogoOfElement(logo_selectors[k], e, base_url)))])

\* element.find('img'), then its src: the src of the first img of an
\* element, <<>> when the element has no img or that img has no src
FirstImgSrc(imgs) == IF imgs = <<>> THEN <<>> ELSE imgs[1]

\* design_elements.py:143-202
extract_logo(soup, base_url) ==
  LET first == SelectorLogos(soup, base_url)
      header == IF soup.headerRegions = <<>> THEN <<>>
                ELSE FirstImgSrc(soup.headerRegions[1])
      home == Concat(Map(soup.homeLinks, FirstImgSrc))
  IN IF first # <<>> THEN Str(first[1])
     ELSE IF header # <<>> THEN Str(urljoin(base_url, header[1]))
     ELSE IF home # <<>> THEN Str(urljoin(base_url, home[1]))
     ELSE None

-----------------------------------------------------------------------------
(* Documents                                                               *)

\* a document that answers nothing to every query
EmptyPage ==
  [title |-> <<>>, h1 |-> <<>>, brandAlt |-> <<>>,
   phones |-> <<<<>>, <<>>, <<>>, <<>>>>, links |-> <<>>, text |-> <<>>,
   metaAddress |-> <<>>, itemAddress |-> <<>>, cityElems |-> <<>>,
   addrElems |-> <<>>, hoursElems |-> <<>>, tables |-> <<>>,
   teamSections |-> <<>>, metaKeywords |-> <<>>, serviceHeaders |-> <<>>,
   metaDesc |-> <<>>,
   styleDecls |-> <<>>, cssRaises |-> FALSE, inlineStyles |-> <<>>,
   customProps |-> <<<<>>, <<>>, <<>>, <<>>, <<>>>>,
   googleFonts |-> <<>>, fontFaces |-> <<>>, styleFamilies |-> <<>>,
   inlineFamilies |-> <<>>, fontVars |-> <<>>,
   logoElems |-> <<<<>>, <<>>, <<>>, <<>>, <<>>, <<>>, <<>>>>,
   headerRegions |-> <<>>, homeLinks |-> <<>>]

\* every sequence over S of length at most n
SeqsUpTo(S, n) == UNION {[1..k -> S] : k \in 0..n}

T_info_x_co == <<"i","n","f","o","@","x",".","c","o">>
T_acme      == <<"A","c","m","e"," ","L","a","w">>
U_about     == HTTPS \o <<"x",".","c","o","/","a","b","o","u","t">>
H_mail_info == MAILTO \o T_info_x_co
H_facebook  == HTTPS \o <<"f","a","c","e","b","o","o","k",".","c","o","m","/","a">>
H_wa_rel    == <<"/","/","w","a",".","m","e","/","1">>
T_phone     == <<"0","3","-","5","5","5","5","5","5","5">>
T_text      == <<"r","e","a","c","h"," ","u","s"," ","a","t"," ">> \o T_info_x_co \o <<".">>
T_keywords  == <<"t","a","x",","," ","l","a","b","o","r">>
T_desc      == <<"l","a","w"," ","f","i","r","m">>
T_hours     == <<"S","u","n"," ","9",":","0","0","\n","\n"," ","M","o","n"," ","9",":","3","0">>
T_arial     == <<"A","r","i","a","l">>
T_family    == <<"'","R","u","b","i","k","'",","," ","A","r","i","a","l",","," ","S","e","r","i","f">>

RichPage ==
  [EmptyPage EXCEPT
     !.title = T_acme, !.h1 = <<<<"H","i">>, T_acme>>,
     !.phones = <<<<T_phone>>, <<>>, <<>>, <<>>>>,
     !.links = <<H_mail_info, H_facebook, H_wa_rel>>,
     !.text = T_text, !.metaKeywords = T_keywords,
     !.hoursElems = <<[text |-> T_hours, hasDay |-> TRUE]>>,
     !.teamSections =
        <<[cards |-> <<>>,
           lis |-> <<[name |-> <<>>, roleTagged |-> <<>>, roleOther |-> <<>>,
                      mailto |-> <<>>],
                     [name |-> T_acme, roleTagged |-> <<>>,
                      roleOther |-> <<T_desc>>, mailto |-> <<H_mail_info>>]>>]>>,
     !.styleFamilies = <<T_family>>, !.fontFaces = <<T_arial>>]

DescPage == [EmptyPage EXCEPT !.metaDesc = T_desc, !.text = T_text]

\* the documents a scrape is run on
ScrapePages == {EmptyPage, RichPage, DescPage}

-----------------------------------------------------------------------------
(* src/scraper/scraper.py: scrape_website                                  *)

MaxFields == 2

\* the names a profile of the catalog file may list besides the default ones
CustomFields == {F_email, F_social, F_catFields, F_colors, F_unknown}

Profiles ==
  {load_profiles.law_firm, load_profiles.doctor, load_profiles.business}
  \cup SeqsUpTo(CustomFields, MaxFields)

Toggles == [colors : BOOLEAN, logo : BOOLEAN, fonts : BOOLEAN]

NoResult == [kind |-> "none", msg |-> ""]

\* scraper.py:13: the parameters, local names of scrape_website
Params == {"url", "profile", "extract_colors", "extract_logo", "extract_fonts"}

\* scraper.py:1-11 and the two def statements: the names of the module
ModuleNames ==
  {"requests", "BeautifulSoup", "re", "logging", "urljoin", "urlparse",
   "extract_colors", "extract_logo", "identify_fonts", "is_valid_email",
   "is_valid_phone", "logger", "scrape_website", "extract_field"}

\* what calling `name` inside scrape_website does: a parameter hides the
\* module name and is a bool, a name of neither scope does not exist
CallOf(name) ==
  IF name \in Params THEN "TypeError"
  ELSE IF name \in ModuleNames THEN "call"
  ELSE "NameError"

Init ==
  /\ pc = "Idle"
  /\ stage = "none"
  /\ url = U_about
  /\ profile \in Profiles
  /\ toggles \in Toggles
  /\ page \in ScrapePages
  /\ fetchOutcome = "pending"
  /\ extracted_data = None
  /\ design_elements = None
  /\ fieldIdx = 0
  /\ result = NoResult
  /\ failedIn = "none"
  /\ getCount = 0
  /\ out = None

\* OnRequestException returning two empty dicts instead of raising
OnRequestException_ReturnsEmpty ==
  /\ pc' = "Done"
  /\ failedIn' = failedIn
  /\ result' = [kind |-> "return", msg |-> ""]
  /\ extracted_data' = Dict(<<>>)
  /\ design_elements' = Dict(<<>>)
  /\ UNCHANGED <<stage, fieldIdx>>

\* scraper.py:62-64: except requests.RequestException
OnRequestException ==
  /\ pc' = "Failed"
  /\ failedIn' = pc
  /\ result' = [kind |-> "raise", msg |-> "Failed to fetch website"]
  /\ UNCHANGED <<stage, extracted_data, design_elements, fieldIdx>>

\* the handler starting the call over instead of raising
OnException_Retries ==
  /\ pc' = "Idle"
  /\ failedIn' = pc
  /\ UNCHANGED <<stage, extracted_data, design_elements, fieldIdx, result>>

\* scraper.py:65-67: except Exception
OnException ==
  /\ pc' = "Failed"
  /\ failedIn' = pc
  /\ result' = [kind |-> "raise", msg |-> "Error during scraping"]
  /\ UNCHANGED <<stage, extracted_data, design_elements, fieldIdx>>

\* scraper.py:27-36: the call starts and issues the GET
Start ==
  /\ pc = "Idle"
  /\ pc' = "Fetching"
  /\ getCount' = getCount + 1
  /\ UNCHANGED <<stage, url, profile, toggles, page, fetchOutcome,
                 extracted_data, design_elements, fieldIdx, result, failedIn, out>>

\* scraper.py:36-37: the GET and raise_for_status succeed
FetchOk ==
  /\ pc = "Fetching"
  /\ fetchOutcome' = "ok"
  /\ pc' = "Parsing"
  /\ UNCHANGED <<stage, url, profile, toggles, page, extracted_data,
                 design_elements, fieldIdx, result, failedIn, getCount, out>>

\* scraper.py:36-37: a transport error or an HTTP error status
FetchFail ==
  /\ pc = "Fetching"
  /\ fetchOutcome' = "error"
  /\ OnRequestException
  /\ UNCHANGED <<url, profile, toggles, page, getCount, out>>

\* scraper.py:40-43: the parser builds the document, extracted_data = {}
ParseOk ==
  /\ pc = "Parsing"
  /\ pc' = "Extracting"
  /\ stage' = "fields"
  /\ extracted_data' = Dict(<<>>)
  /\ UNCHANGED <<url, profile, toggles, page, fetchOutcome, design_elements,
                 fieldIdx, result, failedIn, getCount, out>>

\* scraper.py:40: the parser rejects the markup
ParseFail ==
  /\ pc = "Parsing"
  /\ OnException
  /\ UNCHANGED <<url, profile, toggles, page, fetchOutcome, getCount, out>>

\* scraper.py:44-46: one turn of the loop over profile["fields"]
ExtractNextField ==
  /\ pc = "Extracting" /\ stage = "fields"
  /\ fieldIdx < Len(profile)
  /\ LET field == profile[fieldIdx + 1]
         value == extract_field(page, field, url)
     IN extracted_data' = Dict(DictSet(extracted_data.v, field, value))
  /\ fieldIdx' = fieldIdx + 1
  /\ UNCHANGED <<pc, stage, url, profile, toggles, page, fetchOutcome,
                 design_elements, result, failedIn, getCount, out>>

\* scraper.py:49: the loop is over, design_elements = {}
FieldsDone ==
  /\ pc = "Extracting" /\ stage = "fields"
  /\ fieldIdx = Len(profile)
  /\ design_elements' = Dict(<<>>)
  /\ stage' = "colors"
  /\ UNCHANGED <<pc, url, profile, toggles, page, fetchOutcome, extracted_data,
                 fieldIdx, result, failedIn, getCount, out>>

\* scraper.py:51-52: the call of extract_color_palette
ColorsStep ==
  /\ pc = "Extracting" /\ stage = "colors"
  /\ IF toggles.colors
     THEN IF CallOf("extract_color_palette") = "call"
          THEN /\ \E colors \in extract_colors(page) :
                    design_elements' =
                      Dict(DictSet(design_elements.v, "colors", List(colors)))
               /\ stage' = "logo"
               /\ UNCHANGED <<pc, extracted_data, fieldIdx, result, failedIn>>
          ELSE OnException
     ELSE /\ stage' = "logo"
          /\ UNCHANGED <<pc, extracted_data, design_elements, fieldIdx, result,
                         failedIn>>
  /\ UNCHANGED <<url, profile, toggles, page, fetchOutcome, getCount, out>>

\* scraper.py:54-55: the call of extract_logo
LogoStep ==
  /\ pc = "Extracting" /\ stage = "logo"
  /\ IF toggles.logo
     THEN IF CallOf("extract_logo") = "call"
          THEN /\ design_elements' =
                    Dict(DictSet(design_elements.v, "logo_url",
                                 extract_logo(page, url)))
               /\ stage' = "fonts"
               /\ UNCHANGED <<pc, extracted_data, fieldIdx, result, failedIn>>
          ELSE OnException
     ELSE /\ stage' = "fonts"
          /\ UNCHANGED <<pc, extracted_data, design_elements, fieldIdx, result,
                         failedIn>>
  /\ UNCHANGED <<url, profile, toggles, page, fetchOutcome, getCount, out>>

\* identify_fonts called and its key set whatever the toggle says
FontsStep_IgnoresToggle ==
  /\ pc = "Extracting" /\ stage = "fonts"
  /\ design_elements' =
       Dict(DictSet(design_elements.v, "fonts", List(identify_fonts(page))))
  /\ stage' = "return"
  /\ UNCHANGED <<pc, extracted_data, fieldIdx, result, failedIn>>
  /\ UNCHANGED <<url, profile, toggles, page, fetchOutcome, getCount, out>>

\* scraper.py:57-58: the call of identify_fonts
FontsStep ==
  /\ pc = "Extracting" /\ stage = "fonts"
  /\ IF toggles.fonts
     THEN IF CallOf("identify_fonts") = "call"
          THEN /\ design_elements' =
                    Dict(DictSet(design_elements.v, "fonts",
                                 List(identify_fonts(page))))
               /\ stage' = "return"
               /\ UNCHANGED <<pc, extracted_data, fieldIdx, result, failedIn>>
          ELSE OnException
     ELSE /\ stage' = "return"
          /\ UNCHANGED <<pc, extracted_data, design_elements, fieldIdx, result,
                         failedIn>>
  /\ UNCHANGED <<url, profile, toggles, page, fetchOutcome, getCount, out>>

\* scraper.py:60: return extracted_data, design_elements
Return ==
  /\ pc = "Extracting" /\ stage = "return"
  /\ pc' = "Done"
  /\ result' = [kind |-> "return", msg |-> ""]
  /\ UNCHANGED <<stage, url, profile, toggles, page, fetchOutcome,
                 extracted_data, design_elements, fieldIdx, failedIn, getCount,
                 out>>

Next ==
  \/ Start
  \/ FetchOk
  \/ FetchFail
  \/ ParseOk
  \/ ParseFail
  \/ ExtractNextField
  \/ FieldsDone
  \/ ColorsStep
  \/ LogoStep
  \/ FontsStep
  \/ Return

Spec == Init /\ [][Next]_vars

-----------------------------------------------------------------------------
(* src/app.py: the start_scrape handler, and src/scraper/utils.py:          *)
(* validate_url                                                            *)

\* urllib.parse.urlparse(url).netloc for a url that starts with a scheme and
\* "//": what stands between the "//" and the first of "/", "?", "#"
Netloc(u) ==
  LET start == FindFrom(u, <<"/","/">>, 1) + 2
      rest == Drop(u, start)
      stop(c) == c \in {"/", "?", "#"}
      k == FirstIdx(rest, stop)
  IN IF k = 0 THEN rest ELSE SubSeq(rest, 1, k - 1)

\* urlparse raises ValueError("Invalid IPv6 URL") when the netloc holds one
\* of "[" and "]" without the other
UrlparseRaises(u) ==
  (\E i \in 1..Len(Netloc(u)) : Netloc(u)[i] = "[")
    # (\E i \in 1..Len(Netloc(u)) : Netloc(u)[i] = "]")

\* utils.py:73-93
validate_url(u) ==
  IF u = <<>> THEN FALSE
  ELSE IF ~(StartsWith(u, HTTP) \/ StartsWith(u, HTTPS)) THEN FALSE
  ELSE IF UrlparseRaises(u) THEN FALSE
  ELSE Netloc(u) # <<>>

\* what the user may type in the text input of app.py:70
AppUrls ==
  {<<>>,
   U_about,
   HTTP \o <<"x",".","c","o">>,
   HTTP,
   HTTP \o <<"?","q">>,
   HTTP \o <<"[","x">>,
   <<"f","t","p",":","/","/","x",".","c","o">>,
   <<"H","T","T","P",":","/","/","x",".","c","o">>,
   <<"h","t","t","p",":","/","x",".","c","o">>,
   <<"x",".","c","o">>}

\* app.py:25-39: the profile selected in the sidebar
AppProfiles ==
  {load_profiles.law_firm, load_profiles.doctor, load_profiles.business,
   load_profiles.custom}

InitApp ==
  /\ pc = "Form"
  /\ stage = "none"
  /\ url \in AppUrls
  /\ profile \in AppProfiles
  /\ toggles \in Toggles
  /\ page \in ScrapePages
  /\ fetchOutcome = "pending"
  /\ extracted_data = None
  /\ design_elements = None
  /\ fieldIdx = 0
  /\ result = NoResult
  /\ failedIn = "none"
  /\ getCount = 0
  /\ out = None

\* the handler calling scrape_website without validating the URL
start_scrape_NoValidation ==
  /\ pc = "Form"
  /\ url # <<>>
  /\ pc' = "Idle"
  /\ UNCHANGED <<stage, url, profile, toggles, page, fetchOutcome,
                 extracted_data, design_elements, fieldIdx, result, failedIn,
                 getCount, out>>

\* app.py:77-91: the button is pressed with a non-empty URL; the URL is
\* rejected with a message, or scrape_website is called
start_scrape ==
  /\ pc = "Form"
  /\ url # <<>>
  /\ pc' = IF ~validate_url(url) THEN "Rejected" ELSE "Idle"
  /\ UNCHANGED <<stage, url, profile, toggles, page, fetchOutcome,
                 extracted_data, design_elements, fieldIdx, result, failedIn,
                 getCount, out>>

NextApp ==
  \/ start_scrape
  \/ Start
  \/ FetchOk
  \/ FetchFail
  \/ ParseOk
  \/ ParseFail
  \/ ExtractNextField
  \/ FieldsDone
  \/ ColorsStep
  \/ LogoStep
  \/ FontsStep
  \/ Return

SpecApp == InitApp /\ [][NextApp]_vars

-----------------------------------------------------------------------------
(* A single extractor called on a document: the document is drawn in the   *)
(* initial state, the call is one step                                     *)

\* the variables of scrape_website, at rest while one extractor is called
Resting ==
  /\ stage = "none"
  /\ url = U_about
  /\ profile = <<>>
  /\ toggles = [colors |-> FALSE, logo |-> FALSE, fonts |-> FALSE]
  /\ fetchOutcome = "pending"
  /\ extracted_data = None
  /\ design_elements = None
  /\ fieldIdx = 0
  /\ result = NoResult
  /\ failedIn = "none"
  /\ getCount = 0

Returns(value) ==
  /\ pc' = "Returned"
  /\ out' = value
  /\ UNCHANGED <<stage, url, profile, toggles, page, fetchOutcome,
                 extracted_data, design_elements, fieldIdx, result, failedIn,
                 getCount>>

(* extract_colors *)

MaxDecls == 1
MaxInline == 1

D_color_FFF   == [name |-> COLOR, value |-> <<"#","F","F","F">>]
D_bg_abc      == [name |-> BACKGROUND \o <<"-">> \o COLOR,
                  value |-> <<"#","a","b","c"," ","#","A","B","C">>]
D_margin      == [name |-> <<"m","a","r","g","i","n">>, value |-> <<"#","1","2","3">>]
D_color_rgb   == [name |-> COLOR,
                  value |-> <<"r","g","b","(","1","8",",","5","2",",","8","6",")">>]
V_rgb256      == <<"c","o","l","o","r",":"," ","r","g","b","("," ","2","5","6",","," ","0",",","0",")">>
V_two         == <<"b","a","c","k","g","r","o","u","n","d",":","#","0","0","f","f","0","0",";",
                   "c","o","l","o","r",":","#","f","0","0">>
V_black       == <<"c","o","l","o","r",":","#","0","0","0","0","0","0">>
V_reds        == <<"c","o","l","o","r",":","#","f","f","0","0","0","0",";",
                   "b","o","r","d","e","r","-","c","o","l","o","r",":","#","8","0","0","0","0","0">>
V_six         == <<"c","o","l","o","r",":","#","f","0","0"," ","#","8","f","8"," ",
                   "#","0","0","f"," ","#","c","c","f"," ","#","f","f","0"," ",
                   "#","4","c","c">>
P_white       == <<"#","F","F","F","F","F","F">>
P_abc         == <<"#","a","b","c">>
P_var         == <<"v","a","r","(","-","-","x",")">>

StyleDecls == {D_color_FFF, D_bg_abc, D_margin, D_color_rgb}
InlineValues == {V_rgb256, V_two, V_black}

\* the captures of --primary, --secondary, --accent, --main, --brand
CustomPropChoices ==
  {<<<<>>, <<>>, <<>>, <<>>, <<>>>>,
   <<<<P_white>>, <<>>, <<>>, <<>>, <<>>>>,
   <<<<P_abc>>, <<>>, <<>>, <<>>, <<P_abc>>>>,
   <<<<P_var, P_abc>>, <<>>, <<V_two>>, <<>>, <<>>>>}

ColorPages ==
  {[EmptyPage EXCEPT !.styleDecls = d, !.inlineStyles = i, !.customProps = c,
                     !.cssRaises = e] :
     d \in SeqsUpTo(StyleDecls, MaxDecls), i \in SeqsUpTo(InlineValues, MaxInline),
     c \in CustomPropChoices, e \in BOOLEAN}
  \cup {[EmptyPage EXCEPT !.inlineStyles = <<V_six>>,
                          !.customProps = <<<<P_abc>>, <<>>, <<>>, <<>>, <<>>>>],
         [EmptyPage EXCEPT !.inlineStyles = <<V_reds>>]}

\* design_elements.py:50 and :63: the values hex_color takes during the call
HexColorValues(soup) ==
  IF soup.cssRaises THEN <<>>
  ELSE Concat(Map(SelectSeq(soup.styleDecls,
                     LAMBDA d : Contains(d.name, COLOR) \/ Contains(d.name, BACKGROUND)),
                  LAMBDA d : FindRgb(d.value, 1)))
       \o Concat(Map(soup.inlineStyles, LAMBDA v : FindRgb(v, 1)))

InitColors == pc = "Call" /\ page \in ColorPages /\ out = None /\ Resting

\* design_elements.py:15-98
CallExtractColors ==
  /\ pc = "Call"
  /\ \E palette \in extract_colors(page) :
       Returns([palette |-> palette, hex_color |-> HexColorValues(page)])

NextColors == CallExtractColors

SpecColors == InitColors /\ [][NextColors]_vars

(* extract_logo *)

U_logo_png  == <<"/","l",".","p","n","g">>
U_brand_png == <<"i","m","g","/","l","o","g","o",".","p","n","g">>
U_child_png == HTTPS \o <<"c","d","n",".","c","o","/","c",".","p","n","g">>
U_head_png  == <<"/","h",".","p","n","g">>
U_home_png  == <<"/","r",".","p","n","g">>
X_svg       == <<"<","s","v","g","/",">">>

E_img       == [src |-> <<U_logo_png>>, childSrc |-> <<>>, svg |-> <<>>]
E_img_nosrc == [src |-> <<>>, childSrc |-> <<>>, svg |-> <<>>]
E_img_src   == [src |-> <<U_brand_png>>, childSrc |-> <<>>, svg |-> <<>>]
E_child     == [src |-> <<>>, childSrc |-> <<U_child_png>>, svg |-> <<>>]
E_nochild   == [src |-> <<>>, childSrc |-> <<>>, svg |-> <<>>]
E_svg       == [src |-> <<>>, childSrc |-> <<>>, svg |-> X_svg]

\* what the selectors img[class], img[src], a[class] and svg[class] find
ImgClassChoices == {<<>>, <<E_img_nosrc>>, <<E_img_nosrc, E_img>>}
ImgSrcChoices   == {<<>>, <<E_img_src>>}
AnchorChoices   == {<<>>, <<E_nochild>>, <<E_nochild, E_child>>}
SvgChoices      == {<<>>, <<E_svg>>}
\* header regions: none; one without img; one with an img; a first one
\* without img and a second one with an img; one whose first img has no src
HeaderChoices ==
  {<<>>, <<<<>>>>, <<<<<<U_head_png>>>>>>, <<<<>>, <<<<U_head_png>>>>>>,
   <<<<<<>>, <<U_head_png>>>>>>}
HomeChoices == {<<>>, <<<<>>, <<<<U_home_png>>>>>>}

LogoPages ==
  {[EmptyPage EXCEPT !.logoElems = <<c, <<>>, <<>>, s, a, <<>>, v>>,
                     !.headerRegions = h, !.homeLinks = l] :
     c \in ImgClassChoices, s \in ImgSrcChoices, a \in AnchorChoices,
     v \in SvgChoices, h \in HeaderChoices, l \in HomeChoices}

InitLogo == pc = "Call" /\ page \in LogoPages /\ out = None /\ Resting

\* design_elements.py:143-202
CallExtractLogo ==
  /\ pc = "Call"
  /\ Returns([logo_url |-> extract_logo(page, url)])

NextLogo == CallExtractLogo

SpecLogo == InitLogo /\ [][NextLogo]_vars

(* extraction run twice on one parsed document *)

\* scraper.py:44-58 with the three design extractors called: what one run
\* over the document yields when list(set(colors)) comes out as `palette`
ExtractionRun(soup, base_url, palette) ==
  [extracted_data |-> Map(load_profiles.law_firm,
                          LAMBDA f : extract_field(soup, f, base_url)),
   colors |-> palette,
   logo_url |-> extract_logo(soup, base_url),
   fonts |-> identify_fonts(soup)]

RerunPages == ColorPages \cup ScrapePages

InitRerun == pc = "Call" /\ page \in RerunPages /\ out = <<>> /\ Resting

\* one run of the extraction over the document; the second run is a new run
\* of the same code on the same document
RunExtraction ==
  /\ pc \in {"Call", "Once"}
  /\ pc' = IF pc = "Call" THEN "Once" ELSE "Twice"
  /\ \E palette \in extract_colors(page) :
       out' = Append(out, ExtractionRun(page, url, palette))
  /\ UNCHANGED <<stage, url, profile, toggles, page, fetchOutcome,
                 extracted_data, design_elements, fieldIdx, result, failedIn,
                 getCount>>

NextRerun == RunExtraction

SpecRerun == InitRerun /\ [][NextRerun]_vars

(* identify_fonts *)

MaxFontItems == 1

G_two      == HTTPS \o <<"f","o","n","t","s",".","g","o","o","g","l","e","a","p","i","s",".","c","o","m",
                         "/","c","s","s","?">> \o FAMILY_EQ
                    \o <<"O","p","e","n","+","S","a","n","s",":","4","0","0",",","7","0","0",
                         "|","C","u","r","s","i","v","e","&","d","=","s">>
G_none     == HTTPS \o <<"f","o","n","t","s",".","g","o","o","g","l","e","a","p","i","s",".","c","o","m","/">>
N_fantasy  == <<"F","a","n","t","a","s","y">>
N_padded   == <<" ","A","r","i","a","l"," ">>
M_quoted   == <<"\"","s","e","r","i","f"," ","\"",","," ","a","r","i","a","l",",","m","o","n","o","s","p","a","c","e">>
M_empty    == <<",","'","'",","," ">>

M_cursive  == <<"C","u","r","s","i","v","e",","," ","A","r","i","a","l">>

GoogleHrefs == {G_two, G_none}
FontFaceNames == {N_fantasy, N_padded}
StyleFamilyValues == {T_family, M_quoted}
InlineFamilyValues == {M_quoted, M_empty}
FontVarValues == {T_family, M_cursive}

FontPages ==
  {[EmptyPage EXCEPT !.googleFonts = g, !.fontFaces = f, !.styleFamilies = st,
                     !.inlineFamilies = il, !.fontVars = fv] :
     g \in SeqsUpTo(GoogleHrefs, MaxFontItems),
     f \in SeqsUpTo(FontFaceNames, MaxFontItems),
     st \in SeqsUpTo(StyleFamilyValues, MaxFontItems),
     il \in SeqsUpTo(InlineFamilyValues, MaxFontItems),
     fv \in SeqsUpTo(FontVarValues, MaxFontItems)}

InitFonts == pc = "Call" /\ page \in FontPages /\ out = None /\ Resting

\* design_elements.py:204-291
CallIdentifyFonts ==
  /\ pc = "Call"
  /\ Returns([fonts |-> identify_fonts(page), collected |-> CollectFonts(page)])

NextFonts == CallIdentifyFonts

SpecFonts == InitFonts /\ [][NextFonts]_vars

(* extract_field *)

MaxLinks == 2

H_mail_bad    == MAILTO \o <<"n","o","b","o","d","y">>
H_mail_query  == MAILTO \o <<"a","@","b",".","i","o","?","s","=","h","i">>
H_mail_twice  == MAILTO \o MAILTO \o <<"c","@","d",".","i","o">>
H_tel         == TEL \o T_phone
H_facebook_b  == HTTPS \o <<"f","a","c","e","b","o","o","k",".","c","o","m","/","b">>
T_two_emails  == <<"q","@","w",".","o","r","g"," ","a","-","b","@","c",".","d","e","\n">>

FieldLinks ==
  {H_mail_info, H_mail_bad, H_mail_query, H_mail_twice, H_tel, H_facebook,
   H_facebook_b, H_wa_rel}
FieldTexts == {<<>>, T_text, T_two_emails, T_acme}

MaxSections == 2

T_dr_levi  == <<" ","D","r"," ","L","e","v","i","\n">>
T_adv_cohen == <<"A","d","v"," ","C","o","h","e","n">>
T_partner  == <<"P","a","r","t","n","e","r">>
Pn_blank   == [name |-> <<" ">>, roleTagged |-> <<T_partner>>, roleOther |-> <<>>,
               mailto |-> <<H_mail_info>>]
Pn_levi    == [name |-> T_dr_levi, roleTagged |-> <<>>, roleOther |-> <<T_partner>>,
               mailto |-> <<>>]
Pn_cohen   == [name |-> T_adv_cohen, roleTagged |-> <<T_partner>>,
               roleOther |-> <<>>, mailto |-> <<H_mail_query>>]

\* team sections: cards without a name (the list items are then not looked
\* at); list items, one of them named; cards, one of them named
TeamSectionChoices ==
  {[cards |-> <<Pn_blank>>, lis |-> <<Pn_cohen>>],
   [cards |-> <<>>, lis |-> <<Pn_blank, Pn_levi>>],
   [cards |-> <<Pn_cohen, Pn_blank>>, lis |-> <<>>]}

FieldPages ==
  {[EmptyPage EXCEPT !.links = l, !.text = t] :
     l \in SeqsUpTo(FieldLinks, MaxLinks), t \in FieldTexts}
  \cup {[EmptyPage EXCEPT !.teamSections = ts] :
          ts \in SeqsUpTo(TeamSectionChoices, MaxSections)}
  \cup ScrapePages

InitField ==
  /\ pc = "Call" /\ page \in FieldPages /\ out = None /\ Resting

\* scraper.py:69-340, called with one field name of the vocabulary
CallExtractField ==
  /\ pc = "Call"
  /\ \E field_name \in Vocabulary \cup {F_logo, F_colors, F_unknown} :
       Returns([field |-> field_name,
                value |-> extract_field(page, field_name, url)])

NextField == CallExtractField

SpecField == InitField /\ [][NextField]_vars

-----------------------------------------------------------------------------
(* Properties                                                              *)

IsUnique(s) == \A i, j \in 1..Len(s) : s[i] = s[j] => i = j

\* C1: once the fetch and the parse have succeeded the call cannot fail: only
\* the Fetching and Parsing states lead to Failed, for every profile and
\* every value of the three toggles
C1_OnlyFetchOrParseFail ==
  pc = "Failed" => failedIn \in {"Fetching", "Parsing"}

\* C2: when the GET fails the call raises the fetch failure, no field or
\* design extraction has run and neither dict exists
C2_FetchFailureIsAllOrNothing ==
  fetchOutcome = "error" =>
    /\ pc = "Failed"
    /\ result = [kind |-> "raise", msg |-> "Failed to fetch website"]
    /\ extracted_data = None
    /\ design_elements = None
    /\ fieldIdx = 0
    /\ stage = "none"

C2_Witness ==
  fetchOutcome = "error" /\ pc = "Failed" /\ Len(profile) > 0 /\ toggles.fonts

\* C3: for a profile whose field names are unique, the keys of the returned
\* extracted_data are the profile's field names, in the profile's order
C3_KeysAreProfileFields ==
  (result.kind = "return" /\ IsUnique(profile)) =>
    Keys(extracted_data.v) = profile

C3_Witness ==
  /\ result.kind = "return"
  /\ IsUnique(profile)
  /\ Len(profile) >= 2
  /\ Keys(extracted_data.v) = profile

\* the Python type a declared type tag of the field table stands for
PythonTypeOf(tag) ==
  IF tag \in {"string", "email", "url"} THEN "str"
  ELSE IF tag = "array" THEN "list"
  ELSE "dict"

\* C4: every value extract_field returns for a field of the field table has
\* the type the table declares for that field
C4_ValueHasDeclaredType ==
  \A i \in 1..Len(extracted_data.v) :
    LET field == extracted_data.v[i][1]
        value == extracted_data.v[i][2]
    IN field \in DOMAIN load_fields => value.t = PythonTypeOf(load_fields[field])

\* no link of the document names a platform
NoSocialLink(soup) ==
  \A i \in 1..Len(soup.links) :
    \A k \in 1..Len(social_patterns) :
      ~PlatformMatches(social_patterns[k], soup.links[i])

\* the strategy of a field of the vocabulary has nothing to find in the document
FindsNothing(soup, field) ==
  IF field = F_name
  THEN soup.h1 = <<>> /\ soup.brandAlt = <<>> /\ soup.title = <<>>
  ELSE IF field = F_phone
  THEN /\ \A k \in 1..Len(soup.phones) : soup.phones[k] = <<>>
       /\ \A i \in 1..Len(soup.links) : ~StartsWith(soup.links[i], TEL)
  ELSE IF field \in {F_email, F_email2, F_email3}
  THEN /\ \A i \in 1..Len(soup.links) : ~StartsWith(soup.links[i], MAILTO)
       /\ FindEmails(soup.text, 1) = <<>>
  ELSE IF field = F_address
  THEN /\ soup.metaAddress = <<>> /\ soup.itemAddress = <<>>
       /\ soup.cityElems = <<>> /\ soup.addrElems = <<>>
  ELSE IF field \in {F_hours, F_hoursOpen, F_hoursReception}
  THEN soup.hoursElems = <<>> /\ soup.tables = <<>>
  ELSE IF field \in {F_team, F_doctors} THEN soup.teamSections = <<>>
  ELSE IF field = F_social THEN NoSocialLink(soup)
  ELSE /\ soup.metaKeywords = <<>> /\ soup.serviceHeaders = <<>>
       /\ soup.metaDesc = <<>>

\* C5: when the strategy of a field of the vocabulary finds nothing,
\* extract_field returns the empty string or the empty list
C5_NothingFoundGivesEmptyStrOrList ==
  (pc = "Returned" /\ out.field \in Vocabulary /\ FindsNothing(page, out.field)) =>
    (out.value.t \in {"str", "list"} /\ out.value.v = <<>>)

\* C6: the list extract_colors returns holds none of '#000', '#000000',
\* '#fff', '#ffffff', 'transparent'
C6_NoBlackWhiteTransparent ==
  pc = "Returned" =>
    \A i \in 1..Len(out.palette) : out.palette[i] \notin FilteredOut

\* C7: the list extract_colors returns holds no color twice
C7_NoDuplicateColor ==
  pc = "Returned" => IsUnique(Map(out.palette, Lower))

\* '#' and six lowercase hex digits
IsRRGGBB(c) ==
  /\ Len(c) = 7
  /\ c[1] = "#"
  /\ \A i \in 2..Len(c) : c[i] \in Range(HexLower)

\* C8: every color captured in rgb(r,g,b) notation is emitted as '#' and
\* exactly six lowercase hex digits
C8_RgbIsSixHexDigits ==
  pc = "Returned" =>
    \A i \in 1..Len(out.hex_color) : IsRRGGBB(out.hex_color[i])

\* C9: the list identify_fonts returns is in ascending order without a
\* duplicate, and holds no generic family keyword in any letter case and no
\* empty string
C9_FontsSortedUniqueNoGeneric ==
  pc = "Returned" =>
    /\ \A i \in 1..(Len(out.fonts) - 1) : StrLess(out.fonts[i], out.fonts[i + 1])
    /\ \A i \in 1..Len(out.fonts) :
         /\ out.fonts[i] # <<>>
         /\ Lower(out.fonts[i]) \notin {SERIF, SANS_SERIF, MONOSPACE, CURSIVE, FANTASY}

C9_Witness ==
  /\ pc = "Returned"
  /\ Len(out.fonts) >= 2
  /\ \E i \in 1..Len(out.collected) :
       Lower(Strip(out.collected[i])) \in {CURSIVE, FANTASY}
  /\ \E i, j \in 1..Len(out.collected) :
       i < j /\ Strip(out.collected[i]) = Strip(out.collected[j])

\* the address of a mailto link as C10 words it: the 'mailto:' prefix
\* removed, then everything from the first '?' removed
PrefixAddress(href) == UpTo(Drop(href, Len(MAILTO) + 1), "?")

\* what C10 says email extraction returns
C10_Expected(soup) ==
  LET mailto == SelectSeq(soup.links, LAMBDA h : StartsWith(h, MAILTO))
      texts == SelectSeq(FindEmails(soup.text, 1), is_valid_email)
  IN IF \E i \in 1..Len(mailto) : is_valid_email(PrefixAddress(mailto[i]))
     THEN PrefixAddress(mailto[CHOOSE i \in 1..Len(mailto) :
            /\ is_valid_email(PrefixAddress(mailto[i]))
            /\ \A j \in 1..(i - 1) : ~is_valid_email(PrefixAddress(mailto[j]))])
     ELSE IF texts # <<>> THEN texts[1]
     ELSE <<>>

\* C10: email extraction returns the address of the first mailto link whose
\* address, the 'mailto:' prefix and the query removed, is valid; else the
\* first valid match of the text; else the empty string
C10_FirstValidMailtoElseText ==
  (pc = "Returned" /\ out.field \in {F_email, F_email2, F_email3}) =>
    (out.value.t = "str" /\ out.value.v = C10_Expected(page))

\* C11: for a field name that extract_field has no branch for, the call
\* returns the empty string, whatever the document holds
C11_UnknownFieldGivesEmptyString ==
  (pc = "Returned" /\ out.field \notin Vocabulary) => out.value = Str(<<>>)

C11_Witness ==
  /\ pc = "Returned"
  /\ out.field = F_unknown
  /\ page.links # <<>>
  /\ page.text # <<>>
  /\ out.value = Str(<<>>)

\* the URL has the http or https scheme and a host
IsHttpUrlWithHost(u) ==
  \E scheme \in {HTTP, HTTPS} :
    /\ StartsWith(u, scheme)
    /\ Len(u) > Len(scheme)
    /\ u[Len(scheme) + 1] \notin {"/", "?", "#"}

\* C12: no GET is issued before validate_url has accepted the URL: whenever
\* a GET has been issued the URL is one the validator accepts, with the http
\* or https scheme and a host
C12_NoGetBeforeValidation ==
  getCount > 0 => (validate_url(url) /\ IsHttpUrlWithHost(url))

C12_Witness ==
  /\ getCount > 0
  /\ validate_url(url)
  /\ pc = "Parsing"

\* C13: one call of scrape_website calls requests.get exactly once: never
\* more than once, and once when the call has ended in Done or in Failed
C13_ExactlyOneGet ==
  /\ getCount <= 1
  /\ pc \in {"Done", "Failed"} => getCount = 1

C13_Witness ==
  /\ pc = "Failed"
  /\ failedIn = "Parsing"
  /\ getCount = 1

\* C14: two runs of the extraction on the same document give the same
\* fields, palette (order included), logo and fonts
C14_SameDocumentSameResult ==
  pc = "Twice" => out[1] = out[2]

\* the platform a hyperlink is counted for: the first platform of the table
\* whose pattern is found in the href, "" when none is
PlatformOfLink(href) ==
  LET k == FirstIdx(social_patterns, LAMBDA pat : PlatformMatches(pat, href))
  IN IF k = 0 THEN "" ELSE social_patterns[k][1]

\* the URL kept for a hyperlink: the href, resolved when it is relative
ResolvedLink(href, base_url) ==
  IF StartsWith(href, HTTP) \/ StartsWith(href, HTTPS) THEN href
  ELSE urljoin(base_url, href)

\* C15: social-link extraction keeps one URL per platform, and the URL kept
\* for a platform is that of the first hyperlink of the document, in
\* document order, that matches the platform
C15_FirstLinkWinsPerPlatform ==
  (pc = "Returned" /\ out.field = F_social) =>
    /\ out.value.t = "dict"
    /\ IsUnique(Keys(out.value.v))
    /\ \A i \in 1..Len(out.value.v) :
         LET platform == out.value.v[i][1]
             k == FirstIdx(page.links, LAMBDA h : PlatformOfLink(h) = platform)
         IN k # 0 /\ out.value.v[i][2] = ResolvedLink(page.links[k], url)

\* the usable candidates of each of the five strategies of logo detection, as
\* URLs resolved against the base URL: (1) images matching /logo/i by class,
\* id, alt or src, (2) the child image of an anchor or container matching
\* /logo/i, (3) inline SVG matching /logo/i, (4) images inside a header-like
\* region, (5) images inside a link to the site root
LogoCandidates(soup, base_url) ==
  LET srcs(k) == {urljoin(base_url, soup.logoElems[k][i].src[1]) :
                    i \in {j \in 1..Len(soup.logoElems[k]) :
                             soup.logoElems[k][j].src # <<>>}}
      children(k) == {urljoin(base_url, soup.logoElems[k][i].childSrc[1]) :
                        i \in {j \in 1..Len(soup.logoElems[k]) :
                                 soup.logoElems[k][j].childSrc # <<>>}}
      inside(regions) ==
        UNION {{urljoin(base_url, regions[i][j][1]) :
                  j \in {n \in 1..Len(regions[i]) : regions[i][n] # <<>>}} :
               i \in 1..Len(regions)}
  IN <<srcs(1) \cup srcs(2) \cup srcs(3) \cup srcs(4),
       children(5) \cup children(6),
       {SVG_DATA_URI \o Base64(soup.logoElems[7][i].svg) :
          i \in 1..Len(soup.logoElems[7])},
       inside(soup.headerRegions),
       inside(soup.homeLinks)>>

\* C16: extract_logo returns a candidate of the earliest of the five
\* strategies that has one, and None only when no strategy has one
C16_EarliestStrategyWins ==
  pc = "Returned" =>
    LET cands == LogoCandidates(page, url)
        k == FirstIdx(cands, LAMBDA c : c # {})
    IN IF k = 0 THEN out.logo_url = None
       ELSE out.logo_url.t = "str" /\ out.logo_url.v \in cands[k]

\* the colors of the style blocks and the inline style attributes that
\* survive deduplication and filtering
Survivors(soup) == Range(FilterColors(NormalizedColors(soup)))

\* the colors the custom-property declarations hold
CustomPropColors(soup) == Range(Concat(Map(soup.customProps, PropColors)))

\* C17: when 2 or more colors of the style blocks and inline styles survive,
\* the palette holds only such colors; a color that comes from a custom
\* property alone is in the palette only when fewer than 2 survived
C17_FallbackOnlyBelowTwo ==
  pc = "Returned" =>
    LET S == Survivors(page)
    IN \A i \in 1..Len(out.palette) :
         out.palette[i] \notin S =>
           /\ Cardinality(S) < 2
           /\ out.palette[i] \in CustomPropColors(page)

C17_Witness ==
  /\ pc = "Returned"
  /\ Cardinality(Survivors(page)) >= 2
  /\ CustomPropColors(page) \ Survivors(page) # {}
  /\ Range(out.palette) \subseteq Survivors(page)

\* C18: when 2 or more colors survive filtering the palette is the first
\* max_colors entries of a ranking of the survivors: first a survivor of
\* minimal hue, then the others in non-increasing order of saturation; the
\* palette is never longer than max_colors
C18_RankingTruncated ==
  pc = "Returned" =>
    LET S == Survivors(page)
        p == out.palette
        n == IF Cardinality(S) < max_colors THEN Cardinality(S) ELSE max_colors
    IN /\ Len(p) <= max_colors
       /\ Cardinality(S) >= 2 =>
            /\ Len(p) = n
            /\ IsUnique(p)
            /\ Range(p) \subseteq S
            /\ \A c \in S : ~HueLess(c, p[1])
            /\ \A i \in 2..(Len(p) - 1) : ~SatGreater(p[i + 1], p[i])
            /\ \A c \in S \ Range(p) :
                 \A i \in 2..Len(p) : ~SatGreater(c, p[i])

C18_Witness ==
  /\ pc = "Returned"
  /\ Cardinality(Survivors(page)) > max_colors
  /\ Len(out.palette) = max_colors
  /\ \E i, j \in 2..Len(out.palette) :
       i < j /\ SatGreater(out.palette[i], out.palette[j])

\* the candidates of a team section: its card-like elements, its list items
\* when it has no card-like element
TeamCandidates(section) ==
  IF section.cards # <<>> THEN section.cards ELSE section.lis

\* the candidates of a section that have a name, in order
NamedCandidates(section) ==
  SelectSeq(TeamCandidates(section), LAMBDA person : Strip(person.name) # <<>>)

\* the name of an entry of the returned list
EntryName(entry) == entry[1][2]

\* C19: team extraction returns the entries of the first section, in search
\* order, that has a named candidate: one entry per named candidate of that
\* section, in order, none without a name and none of a later section; the
\* empty list when no section has a named candidate
C19_FirstNamedSectionOnly ==
  (pc = "Returned" /\ out.field \in {F_team, F_doctors}) =>
    LET k == FirstIdx(page.teamSections, LAMBDA sec : NamedCandidates(sec) # <<>>)
    IN /\ out.value.t = "list"
       /\ \A i \in 1..Len(out.value.v) :
            out.value.v[i][1][1] = "name" /\ EntryName(out.value.v[i]) # <<>>
       /\ IF k = 0 THEN out.value.v = <<>>
          ELSE Map(out.value.v, EntryName)
                 = Map(NamedCandidates(page.teamSections[k]),
                       LAMBDA person : Strip(person.name))

C19_Witness ==
  /\ pc = "Returned"
  /\ out.field = F_team
  /\ Len(page.teamSections) >= 2
  /\ NamedCandidates(page.teamSections[1]) # <<>>
  /\ Len(NamedCandidates(page.teamSections[1]))
       < Len(TeamCandidates(page.teamSections[1]))
  /\ NamedCandidates(page.teamSections[2]) # <<>>
  /\ Len(out.value.v) = Len(NamedCandidates(page.teamSections[1]))

\* C20: when the scrape completes, design_elements has the key 'colors',
\* 'logo_url', 'fonts' exactly when the toggle of that key is true, and every
\* value of extracted_data is what extract_field gives for its field on the
\* document, whatever the toggles are
C20_KeysFollowToggles ==
  pc = "Done" =>
    /\ HasKey(design_elements.v, "colors") <=> toggles.colors
    /\ HasKey(design_elements.v, "logo_url") <=> toggles.logo
    /\ HasKey(design_elements.v, "fonts") <=> toggles.fonts
    /\ \A i \in 1..Len(extracted_data.v) :
         extracted_data.v[i][2] = extract_field(page, extracted_data.v[i][1], url)

C20_Witness ==
  /\ pc = "Done"
  /\ toggles.fonts
  /\ HasKey(design_elements.v, "fonts")
  /\ ~HasKey(design_elements.v, "colors")
  /\ ~HasKey(design_elements.v, "logo_url")
  /\ Len(design_elements.v) = 1
  /\ Len(extracted_data.v) > 0

====
